---------------------------- MODULE Spec2Model ----------------------------
(***************************************************************************)
(* A model of the numerical core of shabanipy:                             *)
(*                                                                         *)
(*   shabanipy/dvdi.py               extract_switching_current,            *)
(*                                   find_rising_edge                      *)
(*   shabanipy/jj/fraunhofer/utils.py find_fraunhofer_center,              *)
(*                                   recenter_fraunhofer,                  *)
(*                                   symmetrize_fraunhofer                 *)
(*                                                                         *)
(* Arrays are sequences.  TLA+ sequences are indexed from 1, numpy arrays  *)
(* from 0: the numpy index i is the position i + 1 here, and every         *)
(* operator that returns or takes an index says which of the two it uses.  *)
(*                                                                         *)
(* Floating point values are records [k, s, n, d] in sign-magnitude form,  *)
(* as in IEEE 754: k is "fin" (the rational s * n / d, in lowest terms,    *)
(* with both zeros), "inf" (s * infinity), "nan", or "max" (s * the        *)
(* largest finite double, which numpy.nan_to_num puts in place of an       *)
(* infinity).  Finite arithmetic is exact: rounding is not modelled.       *)
(***************************************************************************)
EXTENDS Integers, Sequences, FiniteSets, TLC

VARIABLES
    pc,        \* which routine the caller is in: "idle", "returned", or a loop position
    bias,      \* extract_switching_current: the caller's bias array
    dvdi,      \* extract_switching_current: the caller's dvdi array (the object passed in)
    dvdi_in,   \* the contents of dvdi when the call was made
    args,      \* the keyword arguments of the call made
    raised,    \* the exception the call ended with, or "none"
    ret,       \* the value returned: <<ic>>, <<ic_n, ic_p>>, or << >> when it raised
    field,     \* symmetrize_fraunhofer: the caller's field array
    ic,        \* symmetrize_fraunhofer: the caller's ic array
    out,       \* symmetrize_fraunhofer: the pair returned
    fieldN,    \* recenter_fraunhofer: the caller's field array (rows swept along the last axis)
    icN,       \* recenter_fraunhofer: the caller's ic array
    res,       \* recenter_fraunhofer: the local array res
    it,        \* recenter_fraunhofer: the position of the iterator (a row, from 1)
    fits       \* the calls of find_fraunhofer_center made so far, in order

vars == <<pc, bias, dvdi, dvdi_in, args, raised, ret, field, ic, out,
          fieldN, icN, res, it, fits>>

dvdiVars == <<bias, dvdi, dvdi_in, args, raised, ret>>
symVars == <<field, ic, out>>
recVars == <<fieldN, icN, res, it, fits>>

-----------------------------------------------------------------------------
(* Sequences *)

Reverse(s) == [i \in 1..Len(s) |-> s[Len(s) + 1 - i]]

\* The elements of a finite set of integers, in increasing order.
RECURSIVE SortedSeq(_)
SortedSeq(S) ==
    IF S = {} THEN << >>
    ELSE LET m == CHOOSE v \in S : \A w \in S : v <= w
         IN  <<m>> \o SortedSeq(S \ {m})

\* The strictly monotonic arrays over S, increasing and decreasing, of at least
\* minLen samples.
MonotonicArrays(S, minLen) ==
    LET inc == {SortedSeq(T) : T \in {U \in SUBSET S : Cardinality(U) >= minLen}}
    IN  inc \cup {Reverse(s) : s \in inc}

-----------------------------------------------------------------------------
(* Floating point values *)

RECURSIVE GCD(_, _)
GCD(a, b) == IF b = 0 THEN a ELSE GCD(b, a % b)

Abs(v) == IF v < 0 THEN -v ELSE v

Sign(v) == IF v < 0 THEN -1 ELSE 1

NaN == [k |-> "nan", s |-> 1, n |-> 0, d |-> 1]

Inf(s) == [k |-> "inf", s |-> s, n |-> 0, d |-> 1]

FloatMax(s) == [k |-> "max", s |-> s, n |-> 0, d |-> 1]

Zero(s) == [k |-> "fin", s |-> s, n |-> 0, d |-> 1]

\* The finite value s * n / d for n >= 0, d > 0, in lowest terms.
Fin(s, n, d) ==
    LET g == GCD(n, d)
    IN  [k |-> "fin", s |-> s, n |-> n \div g, d |-> d \div g]

\* The float of an integer.
F(v) == Fin(Sign(v), Abs(v), 1)

IsZero(a) == a.k = "fin" /\ a.n = 0

FNeg(a) == IF a.k = "nan" THEN a ELSE [a EXCEPT !.s = -a.s]

FAbs(a) == IF a.k = "nan" THEN a ELSE [a EXCEPT !.s = 1]

\* a + b.  A zero sum of two values that are not both zeros of one sign is +0.
FAdd(a, b) ==
    IF a.k = "nan" \/ b.k = "nan" THEN NaN
    ELSE IF a.k # "fin" /\ b.k # "fin" THEN (IF a.s = b.s THEN a ELSE NaN)
    ELSE IF a.k # "fin" THEN a
    ELSE IF b.k # "fin" THEN b
    ELSE LET num == a.s * a.n * b.d + b.s * b.n * a.d
         IN  IF num = 0
             THEN (IF IsZero(a) /\ IsZero(b) /\ a.s = b.s THEN Zero(a.s) ELSE Zero(1))
             ELSE Fin(Sign(num), Abs(num), a.d * b.d)

FSub(a, b) == FAdd(a, FNeg(b))

\* a / b, with IEEE 754's zeros, infinities and invalid operations.
FDiv(a, b) ==
    IF a.k = "nan" \/ b.k = "nan" THEN NaN
    ELSE IF a.k # "fin" /\ b.k # "fin" THEN NaN
    ELSE IF a.k # "fin" THEN Inf(a.s * b.s)
    ELSE IF b.k # "fin" THEN Zero(a.s * b.s)
    ELSE IF IsZero(b) THEN (IF IsZero(a) THEN NaN ELSE Inf(a.s * b.s))
    ELSE Fin(a.s * b.s, a.n * b.d, a.d * b.n)

\* a > b: false when either is a NaN.
FGt(a, b) ==
    IF a.k = "nan" \/ b.k = "nan" THEN FALSE
    ELSE IF a.k # "fin" /\ b.k # "fin" THEN a.s > b.s
    ELSE IF a.k # "fin" THEN a.s = 1
    ELSE IF b.k # "fin" THEN b.s = -1
    ELSE a.s * a.n * b.d > b.s * b.n * a.d

\* a == b as numpy compares: the two zeros are equal, a NaN equals nothing.
FEq(a, b) ==
    IF a.k = "nan" \/ b.k = "nan" THEN FALSE
    ELSE IF a.k # "fin" \/ b.k # "fin" THEN a.k = b.k /\ a.s = b.s
    ELSE a.s * a.n * b.d = b.s * b.n * a.d

FGe(a, b) == FGt(a, b) \/ FEq(a, b)

\* numpy.nan_to_num with its defaults.
nan_to_num(a) ==
    IF a.k = "nan" THEN Zero(1)
    ELSE IF a.k = "inf" THEN FloatMax(a.s)
    ELSE a

-----------------------------------------------------------------------------
(* shabanipy/dvdi.py *)

\* threshold=None.
None == [k |-> "none", s |-> 1, n |-> 0, d |-> 1]

\* numpy.nanmin(y, axis=-1): the least value that is not a NaN, a NaN when all are.
nanmin(y) ==
    LET S == {i \in DOMAIN y : y[i].k # "nan"}
    IN  IF S = {} THEN NaN
        ELSE y[CHOOSE i \in S : \A j \in S : ~FGt(y[i], y[j])]

\* numpy.nanmax(y, axis=-1).
nanmax(y) ==
    LET S == {i \in DOMAIN y : y[i].k # "nan"}
    IN  IF S = {} THEN NaN
        ELSE y[CHOOSE i \in S : \A j \in S : ~FGt(y[j], y[i])]

\* The threshold find_rising_edge compares with: the one given, or half the rise
\* from min(y) to max(y).
EdgeThreshold(y, threshold) ==
    IF threshold = None
    THEN FDiv(FAdd(nanmin(y), nanmax(y)), F(2))
    ELSE threshold

\* EdgeIndex taking the last position above the threshold instead of the first.
EdgeIndexLast(y, threshold) ==
    LET above == {i \in DOMAIN y : FGt(y[i], threshold)}
    IN  IF above = {} THEN 1
        ELSE CHOOSE i \in above : \A j \in above : i >= j

\* numpy.argmax(y > threshold, axis=-1) as a position (numpy index + 1): the first
\* position where y exceeds the threshold, the first position of all when none does.
EdgeIndex(y, threshold) ==
    LET above == {i \in DOMAIN y : FGt(y[i], threshold)}
    IN  IF above = {} THEN 1
        ELSE CHOOSE i \in above : \A j \in above : i <= j

\* The position numpy takes for index - 1: the numpy index -1 is the last sample.
IndexBefore(x, index) == IF index = 1 THEN Len(x) ELSE index - 1

\* find_rising_edge for 1-D x (integers) and y (floats).
find_rising_edge(x, y, threshold, interp) ==
    LET thr == EdgeThreshold(y, threshold)
        index == EdgeIndex(y, thr)
        x1 == F(x[index])
    IN  IF interp
        THEN LET x0 == F(x[IndexBefore(x, index)])
                 y0 == y[IndexBefore(x, index)]
                 y1 == y[index]
                 dydx == FDiv(FSub(y1, y0), FSub(x1, x0))
             IN  FAdd(x0, FDiv(FSub(thr, y0), dydx))
        ELSE x1

\* dvdi -= offset
SubtractOffset(d, offset) == [i \in DOMAIN d |-> d[i] - offset]

\* np.where(bias >= 0, dvdi, np.nan)
PositiveBranch(b, d) ==
    [i \in DOMAIN b |-> IF b[i] >= 0 THEN F(d[i]) ELSE NaN]

\* np.where(bias <= 0, np.abs(dvdi), np.nan)
NegativeBranch(b, d) ==
    [i \in DOMAIN b |-> IF b[i] <= 0 THEN FAbs(F(d[i])) ELSE NaN]

\* ic_p, from dvdi with the offset subtracted.
SwitchingCurrentP(b, d, threshold, interp) ==
    nan_to_num(find_rising_edge(b, PositiveBranch(b, d), threshold, interp))

\* SwitchingCurrentN scanning the negative branch from the most negative bias,
\* the arrays not reversed.
SwitchingCurrentNUnreversed(b, d, threshold, interp) ==
    nan_to_num(find_rising_edge(b, NegativeBranch(b, d), threshold, interp))

\* ic_n, from dvdi with the offset subtracted.
SwitchingCurrentN(b, d, threshold, interp) ==
    nan_to_num(find_rising_edge(Reverse(b), Reverse(NegativeBranch(b, d)),
                                threshold, interp))

\* StackResult stacking the positive branch first.
StackResultSwapped(side, ic_n, ic_p) ==
    IF side = "positive" THEN <<ic_p>>
    ELSE IF side = "negative" THEN <<ic_n>>
    ELSE <<ic_p, ic_n>>

\* The return statement: ic_p, ic_n or np.array((ic_n, ic_p)).
StackResult(side, ic_n, ic_p) ==
    IF side = "positive" THEN <<ic_p>>
    ELSE IF side = "negative" THEN <<ic_n>>
    ELSE <<ic_n, ic_p>>

ValidSides == {"positive", "negative", "both"}

\* extract_switching_current subtracting the offset before it validates side.
extract_switching_current_late_check(b, d, side, threshold, interp, offset) ==
    LET d1 == SubtractOffset(d, offset)
    IN  IF side \notin ValidSides
        THEN [raised |-> "ValueError", dvdi |-> d1, ret |-> << >>]
        ELSE [raised |-> "none",
              dvdi |-> d1,
              ret |-> StackResult(side,
                                  SwitchingCurrentN(b, d1, threshold, interp),
                                  SwitchingCurrentP(b, d1, threshold, interp))]

\* extract_switching_current(bias, dvdi, side=, threshold=, interp=, offset=):
\* the exception raised, the contents of the caller's dvdi afterwards, and the
\* value returned.
extract_switching_current(b, d, side, threshold, interp, offset) ==
    IF side \notin ValidSides
    THEN [raised |-> "ValueError", dvdi |-> d, ret |-> << >>]
    ELSE LET d1 == SubtractOffset(d, offset)
         IN  [raised |-> "none",
              dvdi |-> d1,
              ret |-> StackResult(side,
                                  SwitchingCurrentN(b, d1, threshold, interp),
                                  SwitchingCurrentP(b, d1, threshold, interp))]

\* The largest bias of the sweeps checked; they start at -2.
MaxBias == 3

BiasValues == -2..MaxBias

DvdiValues == {0, 5}

SideValues == ValidSides \cup {"up"}

ThresholdValues == {None, F(0), Fin(1, 5, 2)}

OffsetValues == {0, 5}

NoArgs == [side |-> "positive", threshold |-> None, interp |-> FALSE, offset |-> 0]

\* The state before a call: arrays of one shape, bias swept monotonically.
InitDvdi ==
    /\ pc = "idle"
    /\ bias \in MonotonicArrays(BiasValues, 1)
    /\ dvdi \in [1..Len(bias) -> DvdiValues]
    /\ dvdi_in = dvdi
    /\ args = NoArgs
    /\ raised = "none"
    /\ ret = << >>

\* A call of extract_switching_current on the caller's arrays.
ExtractSwitchingCurrent ==
    /\ pc = "idle"
    /\ \E side \in SideValues, threshold \in ThresholdValues,
          interp \in BOOLEAN, offset \in OffsetValues :
          LET r == extract_switching_current(bias, dvdi, side, threshold, interp, offset)
          IN  /\ args' = [side |-> side, threshold |-> threshold,
                          interp |-> interp, offset |-> offset]
              /\ dvdi_in' = dvdi
              /\ dvdi' = r.dvdi
              /\ raised' = r.raised
              /\ ret' = r.ret
    /\ pc' = "returned"
    /\ UNCHANGED <<bias, symVars, recVars>>

\* No symmetrize_fraunhofer call.
NoSym == field = << >> /\ ic = << >> /\ out = << >>

\* No recenter_fraunhofer call.
NoRecenter ==
    /\ fieldN = << >> /\ icN = << >>
    /\ res = << >> /\ it = 0 /\ fits = << >>

Init == InitDvdi /\ NoSym /\ NoRecenter

Next == ExtractSwitchingCurrent

Spec == Init /\ [][Next]_vars

-----------------------------------------------------------------------------
(* Properties of extract_switching_current *)

\* The call returned a value.
Returned == pc = "returned" /\ raised = "none"

\* dvdi as the call analysed it: its contents at the call, less the offset.
Analysed == SubtractOffset(dvdi_in, args.offset)

Increasing(x) == \A i \in 1..(Len(x) - 1) : x[i] < x[i + 1]

\* ic_p and ic_n as the value returned holds them.
ReturnedP == IF args.side = "both" THEN ret[2] ELSE ret[1]

ReturnedN == ret[1]

\* y never exceeds the threshold (the one given, or the one inferred from y).
NeverExceeds(y) ==
    \A i \in DOMAIN y : ~FGt(y[i], EdgeThreshold(y, args.threshold))

\* C1: if dvdi, less the offset, never exceeds the threshold on a branch, the
\* switching current returned for that branch is exactly 0, for side "positive",
\* "negative" and each row of "both".
C1_ZeroWhenNoEdge ==
    Returned =>
        /\ (args.side \in {"positive", "both"}
            /\ NeverExceeds(PositiveBranch(bias, Analysed)))
           => FEq(ReturnedP, F(0))
        /\ (args.side \in {"negative", "both"}
            /\ NeverExceeds(NegativeBranch(bias, Analysed)))
           => FEq(ReturnedN, F(0))

\* dvdi, less the offset, is at or below the explicit threshold at every position
\* before k and above it from k on, where bias is not negative (k is a position,
\* the numpy index k - 1).
SharpRiseAt(k) ==
    /\ args.threshold # None
    /\ Increasing(bias)
    /\ k \in 2..Len(bias)
    /\ bias[k] >= 0
    /\ \A i \in 1..(k - 1) : ~FGt(F(Analysed[i]), args.threshold)
    /\ \A i \in k..Len(bias) : FGt(F(Analysed[i]), args.threshold)

StrictlyBetween(v, lo, hi) == FGt(v, F(lo)) /\ FGt(F(hi), v)

C3_BothStacksNegativeThenPositive ==
    (Returned /\ args.side = "both") =>
        /\ Len(ret) = 2
        /\ FEq(ret[1], extract_switching_current(bias, dvdi_in, "negative",
                   args.threshold, args.interp, args.offset).ret[1])
        /\ FEq(ret[2], extract_switching_current(bias, dvdi_in, "positive",
                   args.threshold, args.interp, args.offset).ret[1])

\* A call with side "both" whose two branches differ.
C3_Witness ==
    Returned /\ args.side = "both" /\ Len(ret) = 2 /\ ~FEq(ret[1], ret[2])

\* The positions at or below zero bias where |dvdi - offset| exceeds the threshold.
NegativeCrossings ==
    {i \in DOMAIN bias :
        bias[i] <= 0 /\ FGt(FAbs(F(Analysed[i])), args.threshold)}

ExampleBias == <<-2, -1, 0, 1, 2, 3>>

ExampleDvdi == <<5, 5, 0, 0, 5, 5>>

IsExample ==
    /\ bias = ExampleBias /\ dvdi_in = ExampleDvdi
    /\ args.threshold = Fin(1, 5, 2) /\ args.offset = 0 /\ ~args.interp

\* C4: for increasing bias and an explicit threshold, side "negative" (interp left
\* at its default) returns the bias of smallest magnitude among the samples at or
\* below zero bias where |dvdi - offset| exceeds the threshold, when there is one;
\* bias=[-2,-1,0,1,2,3], dvdi=[5,5,0,0,5,5], threshold=2.5 gives -1, and 2 for
\* side "positive".
C4_NegativeNearestZero ==
    Returned =>
        /\ (/\ args.side = "negative" /\ ~args.interp /\ args.threshold # None
            /\ Increasing(bias) /\ NegativeCrossings # {})
           => \E i \in NegativeCrossings :
                 /\ \A j \in NegativeCrossings : Abs(bias[i]) <= Abs(bias[j])
                 /\ FEq(ret[1], F(bias[i]))
        /\ (IsExample /\ args.side = "negative") => ret = <<F(-1)>>
        /\ (IsExample /\ args.side = "positive") => ret = <<F(2)>>

\* The example, on the negative side.
C4_Witness ==
    Returned /\ IsExample /\ args.side = "negative" /\ ret = <<F(-1)>>

\* C8: a call whose side is not "positive", "negative" or "both" ends with the
\* invalid-argument error, returns nothing and leaves bias and dvdi as they were,
\* whatever the offset.
C8_InvalidSideRaisesFirst ==
    [][args'.side \notin ValidSides =>
          /\ raised' = "ValueError"
          /\ ret' = << >>
          /\ bias' = bias
          /\ dvdi' = dvdi]_vars

\* A call with an unknown side and an offset that is not zero.
C8_Witness ==
    /\ pc = "returned" /\ args.side \notin ValidSides /\ args.offset # 0
    /\ raised = "ValueError"

\* C9: the call leaves the contents of the caller's arrays as they were, so the
\* same call on them again returns the same result.
C9_InputsUnchanged ==
    Returned =>
        /\ dvdi = dvdi_in
        /\ extract_switching_current(bias, dvdi, args.side, args.threshold,
                                     args.interp, args.offset).ret = ret

-----------------------------------------------------------------------------
(* shabanipy/jj/fraunhofer/utils.py: symmetrize_fraunhofer *)

\* "Ensure we get increasing value of field": both arrays reversed when the first
\* two samples descend.
Ascending(fld, a) == IF fld[1] > fld[2] THEN Reverse(a) ELSE a

\* np.argmin(np.abs(field)) as a position (numpy index + 1): the first of the
\* samples nearest to zero field.
ZeroIndex(fld) ==
    CHOOSE i \in DOMAIN fld :
        /\ \A j \in DOMAIN fld : Abs(fld[i]) <= Abs(fld[j])
        /\ \A j \in 1..(i - 1) : Abs(fld[j]) > Abs(fld[i])

\* The side kept, for an ascending field whose zero index is at position index.
KeptSide(fld, index) ==
    IF index = 1 THEN "positive"
    ELSE IF index = Len(fld) THEN "negative"
    ELSE IF index - 1 > Len(fld) - index THEN "negative"
    ELSE "positive"

\* f or i: the part of the array a kept, the whole of it when the zero index is
\* its first or last sample.
KeptSegment(a, index) ==
    IF index = 1 \/ index = Len(a) THEN a
    ELSE IF index - 1 > Len(a) - index THEN SubSeq(a, 1, index)
    ELSE SubSeq(a, index, Len(a))

\* Mirror with the sample at zero field repeated in the mirrored half.
MirrorRepeatingZero(a, sgn, side) ==
    IF side = "positive"
    THEN [j \in 1..Len(a) |-> sgn * a[Len(a) + 1 - j]] \o a
    ELSE a \o [j \in 1..Len(a) |-> sgn * a[Len(a) + 1 - j]]

\* np.concatenate((sgn * a[1:][::-1], a)) for the positive side,
\* np.concatenate((a, sgn * a[:-1][::-1])) for the negative side.
Mirror(a, sgn, side) ==
    IF side = "positive"
    THEN [j \in 1..(Len(a) - 1) |-> sgn * a[Len(a) + 1 - j]] \o a
    ELSE a \o [j \in 1..(Len(a) - 1) |-> sgn * a[Len(a) - j]]

\* symmetrize_fraunhofer(field, ic): the pair (field', ic').
symmetrize_fraunhofer(fld, i_c) ==
    LET fa == Ascending(fld, fld)
        ia == Ascending(fld, i_c)
        index == ZeroIndex(fa)
        side == KeptSide(fa, index)
    IN  <<Mirror(KeptSegment(fa, index), -1, side),
          Mirror(KeptSegment(ia, index), 1, side)>>

\* The largest field of the patterns checked; they start at -3.
MaxField == 2

FieldValues == -3..MaxField

IcValues == {1, 2, 3}

\* No extract_switching_current call.
NoDvdi ==
    /\ bias = << >> /\ dvdi = << >> /\ dvdi_in = << >>
    /\ args = NoArgs /\ raised = "none" /\ ret = << >>

\* The state before a call: a monotonic field of at least two samples and an ic
\* of the same length.
InitSym ==
    /\ pc = "idle"
    /\ field \in MonotonicArrays(FieldValues, 2)
    /\ ic \in [1..Len(field) -> IcValues]
    /\ out = << >>
    /\ NoDvdi /\ NoRecenter

\* A call of symmetrize_fraunhofer on the caller's arrays.
SymmetrizeFraunhofer ==
    /\ pc = "idle"
    /\ out' = symmetrize_fraunhofer(field, ic)
    /\ pc' = "returned"
    /\ UNCHANGED <<field, ic, dvdiVars, recVars>>

SpecSym == InitSym /\ [][SymmetrizeFraunhofer]_vars

-----------------------------------------------------------------------------
(* Properties of symmetrize_fraunhofer *)

\* a[i] == sgn * a[len-1-i] for every i.
Mirrored(a, sgn) == \A i \in DOMAIN a : a[i] = sgn * a[Len(a) + 1 - i]

\* C5: the output is symmetric at every index, the middle one included:
\* ic'[i] == ic'[len-1-i] and field'[i] == -field'[len-1-i].
C5_OutputSymmetric ==
    pc = "returned" => Mirrored(out[1], -1) /\ Mirrored(out[2], 1)

\* C6: a pattern that is symmetric already (field[i] == -field[len-1-i],
\* ic[i] == ic[len-1-i]) comes back as it is, in ascending order, whether its
\* length is odd or even, and symmetrizing the output returns the output.
C6_IdempotentOnSymmetric ==
    (pc = "returned" /\ Mirrored(field, -1) /\ Mirrored(ic, 1)) =>
        /\ out = <<Ascending(field, field), Ascending(field, ic)>>
        /\ symmetrize_fraunhofer(out[1], out[2]) = out

ExampleField == <<-3, -2, -1, 0, 1, 2>>

\* The number of samples kept: the longer side of the zero index with the sample
\* at the zero index, the positive side when neither is longer, and the whole
\* array when the zero index is its first or last sample.
KeptLength ==
    LET fa == Ascending(field, field)
        z == ZeroIndex(fa)
        before == z - 1
        after == Len(fa) - z
    IN  IF z = 1 \/ z = Len(fa) THEN Len(fa)
        ELSE IF before > after THEN before + 1
        ELSE after + 1

OutputLengthFromKept ==
    Len(out[1]) = 2 * KeptLength - 1 /\ Len(out[2]) = 2 * KeptLength - 1

\* C7 as stated: field=[-3,-2,-1,0,1,2] keeps the negative side and returns arrays
\* of length 9; the length is always 2 x (kept segment length) - 1.
C7_ExampleLengthNine ==
    pc = "returned" =>
        /\ OutputLengthFromKept
        /\ field = ExampleField =>
              /\ KeptSide(field, ZeroIndex(field)) = "negative"
              /\ Len(out[1]) = 9 /\ Len(out[2]) = 9

\* C7 amended: field=[-3,-2,-1,0,1,2] keeps the negative side, the four samples
\* from -3 to 0, and returns arrays of length 2 x 4 - 1 = 7; the length is always
\* 2 x (kept segment length) - 1, the kept segment being the longer side of the
\* zero index with the sample at the zero index.
C7_ExampleLengthSeven ==
    pc = "returned" =>
        /\ OutputLengthFromKept
        /\ field = ExampleField =>
              /\ KeptSide(field, ZeroIndex(field)) = "negative"
              /\ Len(out[1]) = 7 /\ Len(out[2]) = 7

\* The example, symmetrized.
C7_Witness ==
    /\ pc = "returned" /\ field = ExampleField
    /\ out[1] = <<-3, -2, -1, 0, 1, 2, 3>>

-----------------------------------------------------------------------------
(* shabanipy/jj/fraunhofer/utils.py: find_fraunhofer_center, recenter_fraunhofer *)

\* field_lim=None.
NoLimit == << >>

\* max_loc as a position (numpy index + 1): np.argmax of ic, or of ic with the
\* samples whose field is not strictly inside field_lim masked to -infinity.  The
\* first of the largest samples; the first sample of all when every one is masked.
MaxLoc(fld, i_c, field_lim) ==
    LET inside == IF field_lim = NoLimit THEN DOMAIN i_c
                  ELSE {i \in DOMAIN i_c :
                           field_lim[1] < fld[i] /\ fld[i] < field_lim[2]}
    IN  IF inside = {} THEN 1
        ELSE CHOOSE i \in inside :
                 /\ \A j \in inside : i_c[j] <= i_c[i]
                 /\ \A j \in inside : j < i => i_c[j] < i_c[i]

\* The empirical factor 0.65 = WidthFactorNum / WidthFactorDen.
WidthFactorNum == 65

WidthFactorDen == 100

\* Python's round(num / den) for num >= 0, den > 0: to the nearest integer, a
\* half to the even one.
RoundHalfEven(num, den) ==
    LET q == num \div den
        r == num % den
    IN  IF 2 * r < den THEN q
        ELSE IF 2 * r > den THEN q + 1
        ELSE IF q % 2 = 0 THEN q ELSE q + 1

\* width_index = int(round(width[0] * 0.65))
WidthIndex(width) == RoundHalfEven(width * WidthFactorNum, WidthFactorDen)

\* a[start_index : max_loc + width_index + 1] with start_index =
\* max(0, max_loc - width_index), for max_loc at position loc: the slice ends at
\* the end of the array when it would pass it.
FitWindow(a, loc, width_index) ==
    LET start_index == IF loc - 1 - width_index > 0 THEN loc - 1 - width_index ELSE 0
        stop == IF loc + width_index < Len(a) THEN loc + width_index ELSE Len(a)
    IN  SubSeq(a, start_index + 1, stop)

\* start_index = max(0, max_loc - width_index), a numpy index, for max_loc at
\* position loc.
StartIndex(loc, width_index) ==
    IF loc - 1 - width_index > 0 THEN loc - 1 - width_index ELSE 0

\* The numpy index where the slice [start_index : max_loc + width_index + 1] of an
\* array of n samples stops: a slice that would pass the end stops at the end.
StopIndex(n, loc, width_index) ==
    IF loc + width_index < n THEN loc + width_index ELSE n

\* find_fraunhofer_center(field, ic, field_lim=), for the width scipy's
\* peak_widths gives and the center lmfit's fit of the window gives: the call as
\* recorded, with max_loc, width_index, start_index and the end of the slice (numpy
\* indices), the window fitted (xdata, ydata) and the center returned.
find_fraunhofer_center(fld, i_c, field_lim, width, center) ==
    LET max_loc == MaxLoc(fld, i_c, field_lim)
        width_index == WidthIndex(width)
    IN  [field |-> fld, ic |-> i_c, field_lim |-> field_lim,
         max_loc |-> max_loc - 1,
         width_index |-> width_index,
         start_index |-> StartIndex(max_loc, width_index),
         stop |-> StopIndex(Len(fld), max_loc, width_index),
         xdata |-> FitWindow(fld, max_loc, width_index),
         ydata |-> FitWindow(i_c, max_loc, width_index),
         center |-> center]

\* res -= center: the center taken off every slice.
SubtractCenterEverywhere(r, index, center) ==
    [k \in DOMAIN r |-> [j \in DOMAIN r[k] |-> r[k][j] - center]]

\* res[index] -= center
SubtractCenter(r, index, center) ==
    [r EXCEPT ![index] = [j \in DOMAIN r[index] |-> r[index][j] - center]]

\* The most leading-axis indices of the arrays checked.
MaxRows == 2

\* The samples along the swept axis of the arrays checked.
SweepLen == 3

\* The rows checked: fields that ascend by one from a first sample, critical
\* currents with one peak.
FieldRows == {[j \in 1..SweepLen |-> first + j - 1] : first \in {-1, 0}}

IcRows == {[j \in 1..SweepLen |-> IF j = peak THEN 2 ELSE 1] : peak \in 1..SweepLen}

\* What peak_widths and the fit may give.
WidthValues == {0, 1, 3}

CenterValues == {-1, 2}

\* The state before a call: field and ic of one shape, the last axis swept.  A
\* 1-D array is iterated as its single row is.
InitRecenter ==
    /\ pc = "idle"
    /\ \E rows \in 1..MaxRows :
          /\ fieldN \in [1..rows -> FieldRows]
          /\ icN \in [1..rows -> IcRows]
    /\ res = << >> /\ it = 0 /\ fits = << >>
    /\ NoDvdi /\ NoSym

\* it = np.nditer(field[..., 0], ["multi_index"]); res = np.copy(field)
RecenterBegin ==
    /\ pc = "idle"
    /\ res' = fieldN
    /\ it' = 1
    /\ pc' = "iterating"
    /\ UNCHANGED <<fieldN, icN, fits, dvdiVars, symVars>>

\* One pass of the loop: the center of the slice at the iterator is found and
\* taken off that slice of res.
RecenterIterate ==
    /\ pc = "iterating"
    /\ it <= Len(fieldN)
    /\ \E width \in WidthValues, center \in CenterValues :
          LET fit == find_fraunhofer_center(fieldN[it], icN[it], NoLimit, width, center)
          IN  /\ fits' = Append(fits, fit)
              /\ res' = SubtractCenter(res, it, fit.center)
    /\ it' = it + 1
    /\ UNCHANGED <<pc, fieldN, icN, dvdiVars, symVars>>

\* return res
RecenterReturn ==
    /\ pc = "iterating"
    /\ it > Len(fieldN)
    /\ pc' = "returned"
    /\ UNCHANGED <<fieldN, icN, res, it, fits, dvdiVars, symVars>>

NextRecenter == RecenterBegin \/ RecenterIterate \/ RecenterReturn

SpecRecenter == InitRecenter /\ [][NextRecenter]_vars

-----------------------------------------------------------------------------
(* Properties of recenter_fraunhofer *)

\* What is returned has the shape of field, and each slice of it is that slice of
\* field less the center find_fraunhofer_center gave for that slice of field and ic.
RecenteredSliceBySlice ==
    /\ DOMAIN res = DOMAIN fieldN
    /\ Len(fits) = Len(fieldN)
    /\ \A index \in DOMAIN fieldN :
          /\ fits[index].field = fieldN[index]
          /\ fits[index].ic = icN[index]
          /\ DOMAIN res[index] = DOMAIN fieldN[index]
          /\ \A j \in DOMAIN fieldN[index] :
                res[index][j] = fieldN[index][j] - fits[index].center

\* C10: recenter_fraunhofer returns an array of the shape of field in which every
\* slice is the slice of field less the center found for that slice of field and
\* ic, and no step of it changes field or ic.
C10_RecenterSlices ==
    /\ [](pc = "returned" => RecenteredSliceBySlice)
    /\ [][fieldN' = fieldN /\ icN' = icN]_vars

\* Two slices recentered by different centers.
C10_Witness ==
    /\ pc = "returned" /\ Len(fieldN) = 2
    /\ fits[1].center # fits[2].center
    /\ RecenteredSliceBySlice

-----------------------------------------------------------------------------
(* find_fraunhofer_center called with field_lim *)

\* The limits (min, max) checked, and field_lim=None.
LimitValues == {NoLimit, <<-2, 2>>, <<0, 2>>, <<3, 5>>}

PeakIcValues == {1, 2}

\* The state before a call: a monotonic field and an ic of the same length.
InitCenter ==
    /\ pc = "idle"
    /\ field \in MonotonicArrays(FieldValues, 1)
    /\ ic \in [1..Len(field) -> PeakIcValues]
    /\ out = << >>
    /\ NoDvdi /\ NoRecenter

\* A call of find_fraunhofer_center on the caller's arrays.
FindFraunhoferCenter ==
    /\ pc = "idle"
    /\ \E field_lim \in LimitValues, width \in WidthValues, center \in CenterValues :
          fits' = <<find_fraunhofer_center(field, ic, field_lim, width, center)>>
    /\ pc' = "returned"
    /\ UNCHANGED <<field, ic, out, fieldN, icN, res, it, dvdiVars>>

SpecCenter == InitCenter /\ [][FindFraunhoferCenter]_vars

\* The call made.
TheFit == fits[1]

\* The field at the peak index is strictly inside field_lim.
PeakInsideLimits ==
    /\ TheFit.field_lim[1] < field[TheFit.max_loc + 1]
    /\ field[TheFit.max_loc + 1] < TheFit.field_lim[2]

\* The window fitted is the samples of one index range start_index..stop-1 inside
\* the array that holds the peak index, and starts at index 0 when the radius
\* exceeds the peak index.
WindowAroundPeak ==
    /\ 0 <= TheFit.start_index
    /\ TheFit.start_index <= TheFit.max_loc
    /\ TheFit.max_loc < TheFit.stop
    /\ TheFit.stop <= Len(field)
    /\ TheFit.xdata = SubSeq(field, TheFit.start_index + 1, TheFit.stop)
    /\ TheFit.ydata = SubSeq(ic, TheFit.start_index + 1, TheFit.stop)
    /\ TheFit.width_index > TheFit.max_loc => TheFit.start_index = 0

\* C11: for every field, ic and field_lim=(lo, hi), the field at the peak index
\* selected is strictly inside (lo, hi), and the window passed to the fit is a
\* contiguous index range inside the array bounds that contains the peak index,
\* its start clamped to index 0 when the radius exceeds the peak index.
C11_PeakInsideLimitsAndWindow ==
    (pc = "returned" /\ TheFit.field_lim # NoLimit) =>
        PeakInsideLimits /\ WindowAroundPeak

\* The window of every call, with limits or without, is as C11 says.
C11_WindowOnly == pc = "returned" => WindowAroundPeak

\* A call with limits that hold a sample, its window clamped at index 0.
C11_ClampedInside ==
    /\ pc = "returned" /\ TheFit.field_lim # NoLimit
    /\ PeakInsideLimits /\ WindowAroundPeak
    /\ TheFit.width_index > TheFit.max_loc

=============================================================================
